---- MODULE Spec2Model ----
(***************************************************************************)
(* Flight-Display: the display sinks of display.py (SimulatorDisplay and   *)
(* the threaded MatrixDisplay with its _run_loop worker) and the frame     *)
(* composer of image_generator.py.                                         *)
(*                                                                         *)
(* A frame [kind |-> "frame", id, idx] is image idx (0-based) of the       *)
(* content handed to the id-th show()/clear() call.  An images argument is *)
(* either a bare image (isList = FALSE, img: what generate_display_image   *)
(* returns when nothing scrolls) or a Python list of images (isList =      *)
(* TRUE, items: possibly empty).                                           *)
(***************************************************************************)
EXTENDS Integers, Sequences, FiniteSets, TLC

MaxLen == 3
MaxCmds == 3
MaxReps == 11
MaxText == 3
MaxScale == 2
MaxDelta == 8000
DrawWidth == 6
DrawHeight == 8

MATRIX_HEIGHT == 32

\* generate_display_image: top rows of the three text lines
line_1_y == 1

line_2_y == 14

line_3_y == 24

\* generate_display_image: blank columns between the two copies of a
\* scrolling line
copy_gap == 20

\* draw_text: rows of a glyph column
char_height == 7

\* get_status_colour: seconds early at which the gradient is fully green
EARLY_SPAN == 3600

\* get_status_colour: seconds late at which the gradient is fully red
LATE_SPAN == 7200

MATRIX_WIDTH == 64
margin == 2

VARIABLES
    IS_PI,           \* display.py:10-19, chooses the sink in get_display()
    frames,          \* MatrixDisplay._frames
    lock,            \* MatrixDisplay._lock: "free", "producer" or "player"
    running,         \* MatrixDisplay._running (threading.Event)
    playerPc,        \* position of the worker thread in _run_loop
    current_frames,  \* local current_frames of _run_loop
    frameIdx,        \* index of the loop variable `frame` in current_frames
    panel,           \* what the matrix shows: "off", "blank" or a frame
    lastOp,          \* last hardware call made by the worker
    raised,          \* where the worker raised: "none", "init", "loop"
    prodPc,          \* position of the producer (the caller of the sink)
    arg,             \* images argument of the show() call in progress
    cmds,            \* number of show()/clear() calls made so far
    prodErr,         \* exception raised to the producer: "none", "IndexError"
    artifacts,       \* files written by SimulatorDisplay.show, in order
    lastCmd,         \* history: last completed show()/clear() call
    renderedIds,     \* history: ids of the calls whose frames were rendered
    skipped,         \* history: ids replaced before any snapshot saw them
    superseded,      \* history: a call completed since the last snapshot
    staleRenders,    \* history: frames rendered since then from that snapshot
    flight_number,   \* generate_display_image: text of row 1, right
    origin_code,     \* generate_display_image: text of row 1, left
    origin_city,     \* generate_display_image: text of row 2
    aircraft_type,   \* generate_display_image: text of row 3
    composePc,       \* "idle", "ready" (called) or "returned"
    result,          \* what generate_display_image returned
    toolPc,          \* position of the single call a run is about
    in_text,         \* get_text_width / draw_text: text
    in_scale,        \* get_text_width / draw_text: scale
    in_x,            \* draw_text: x_start
    in_y,            \* draw_text: y_start
    in_clip,         \* draw_text: clip_x_start, clip_x_end (each may be None)
    in_font,         \* draw_text: font
    grid,            \* ImageGenerator.grid, as the set of its cells set to 1
    out_width,       \* what get_text_width(text) returned
    out_widthUpper,  \* what get_text_width(text.upper()) returned
    in_diff,         \* get_status_colour: diff_seconds
    colour,          \* what get_status_colour returned, <<r, g, b>>
    step,            \* generate_display_image: frames composed so far
    first            \* generate_display_image: cells lit in frames[0]

vars == <<IS_PI, frames, lock, running, playerPc, current_frames, frameIdx,
          panel, lastOp, raised, prodPc, arg, cmds, prodErr, artifacts,
          lastCmd, renderedIds, skipped, superseded, staleRenders,
          flight_number, origin_code, origin_city, aircraft_type, composePc,
          result, toolPc, in_text, in_scale, in_x, in_y, in_clip, in_font, grid,
          out_width, out_widthUpper, in_diff, colour, step, first>>

sinkVars == <<IS_PI, frames, lock, running, playerPc, current_frames,
              frameIdx, panel, lastOp, raised, prodPc, arg, cmds, prodErr,
              artifacts, lastCmd, renderedIds, skipped, superseded,
              staleRenders>>
toolVars == <<toolPc, in_text, in_scale, in_x, in_y, in_clip, in_font, grid,
              out_width, out_widthUpper, in_diff, colour, step, first>>
composeVars == <<flight_number, origin_code, origin_city, aircraft_type,
                 composePc, result, toolVars>>

playerVars == <<playerPc, current_frames, frameIdx, panel, lastOp, raised>>
histVars == <<renderedIds, staleRenders>>
simVars == <<prodErr, artifacts>>

(***************************************************************************)
(* Values                                                                  *)
(***************************************************************************)
Frame(id, i) == [kind |-> "frame", id |-> id, idx |-> i]

PanelOff == [kind |-> "off", id |-> 0, idx |-> 0]

PanelBlank == [kind |-> "blank", id |-> 0, idx |-> 0]

IsFrame(p) == p.kind = "frame"

MkList(id, n) == [i \in 1..n |-> Frame(id, i - 1)]

BareImage(f) == [isList |-> FALSE, img |-> f, items |-> <<>>]

ImageList(fs) == [isList |-> TRUE, img |-> PanelOff, items |-> fs]

\* the images a caller may hand to its id-th call
ImagesFor(id) ==
    {BareImage(Frame(id, 0))} \cup {ImageList(MkList(id, n)) : n \in 0..MaxLen}

NoImages == ImageList(<<>>)

\* the sequence a call is expected to publish
Expected(c) ==
    IF c.kind = "show" /\ c.n > 0 THEN MkList(c.id, c.n) ELSE <<>>

(***************************************************************************)
(* MatrixDisplay.show / MatrixDisplay.clear: the assignments to _frames    *)
(***************************************************************************)
ShowAssign(old, images) ==
    IF images.isList THEN images.items ELSE <<images.img>>

ClearAssignKeep(old) == old

ClearAssign(old) == <<>>

(***************************************************************************)
(* SimulatorDisplay.show: the file it writes, or the exception it raises   *)
(***************************************************************************)
SimImages(images) ==
    IF images.isList THEN images.items ELSE <<images.img>>

SimShowResult(images) ==
    LET imgs == SimImages(images) IN
    IF Len(imgs) > 1
    THEN [err |-> "none", file |-> <<"gif", Len(imgs)>>]
    ELSE IF Len(imgs) >= 1
         THEN [err |-> "none", file |-> <<"png", 1>>]
         ELSE [err |-> "IndexError", file |-> <<>>]

(***************************************************************************)
(* Initial state: the sink has been constructed by get_display()           *)
(***************************************************************************)
SinkInit(pi) ==
    /\ IS_PI \in pi
    /\ frames = <<>>
    /\ lock = "free"
    /\ running = FALSE
    /\ playerPc = "unstarted"
    /\ current_frames = <<>>
    /\ frameIdx = 0
    /\ panel = PanelOff
    /\ lastOp = "none"
    /\ raised = "none"
    /\ prodPc = "init"
    /\ arg = NoImages
    /\ cmds = 0
    /\ prodErr = "none"
    /\ artifacts = <<>>
    /\ lastCmd = [kind |-> "none", id |-> 0, n |-> 0, prev |-> "none"]
    /\ renderedIds = {}
    /\ skipped = {}
    /\ superseded = FALSE
    /\ staleRenders = 0

NoResult == [isList |-> FALSE, n |-> 0]

NoClip == [hasStart |-> FALSE, start |-> 0, hasEnd |-> FALSE, end |-> 0]

\* no call of the text, colour or frame routines is under way
ToolIdle ==
    /\ toolPc = "idle"
    /\ in_text = <<>>
    /\ in_scale = 1
    /\ in_x = 0
    /\ in_y = 0
    /\ in_clip = NoClip
    /\ in_font = <<>>
    /\ grid = {}
    /\ out_width = 0
    /\ out_widthUpper = 0
    /\ in_diff = 0
    /\ colour = <<0, 0, 0>>
    /\ step = 0
    /\ first = {}

Init ==
    /\ SinkInit(BOOLEAN)
    /\ flight_number = <<>>
    /\ origin_code = <<>>
    /\ origin_city = <<>>
    /\ aircraft_type = <<>>
    /\ composePc = "idle"
    /\ result = NoResult
    /\ ToolIdle

\* history: _frames is being replaced
NoteReplace ==
    /\ superseded' = TRUE
    /\ skipped' = IF superseded /\ frames # <<>>
                  THEN skipped \cup {frames[1].id} ELSE skipped

is_alive == playerPc \notin {"unstarted", "done"}

(***************************************************************************)
(* Producer side: MatrixDisplay                                            *)
(***************************************************************************)
\* MatrixDisplay.start
Start ==
    /\ IS_PI /\ prodPc = "init"
    /\ running' = TRUE
    /\ playerPc' = "acquire"
    /\ prodPc' = "run"
    /\ UNCHANGED <<IS_PI, frames, lock, current_frames, frameIdx, panel,
                   lastOp, raised, arg, cmds, lastCmd, superseded, skipped>>
    /\ UNCHANGED <<histVars, simVars, composeVars>>

\* MatrixDisplay.show, entering `with self._lock`
ShowAcquire ==
    /\ IS_PI /\ prodPc = "run" /\ cmds < MaxCmds
    /\ lock = "free"
    /\ \E images \in ImagesFor(cmds + 1) : arg' = images
    /\ lock' = "producer"
    /\ cmds' = cmds + 1
    /\ prodPc' = "show"
    /\ UNCHANGED <<IS_PI, frames, running, playerVars, lastCmd, superseded, skipped>>
    /\ UNCHANGED <<histVars, simVars, composeVars>>

\* MatrixDisplay.show, the assignment and the release of the lock
ShowWrite ==
    /\ prodPc = "show"
    /\ frames' = ShowAssign(frames, arg)
    /\ lock' = "free"
    /\ prodPc' = "run"
    /\ lastCmd' = [kind |-> "show", id |-> cmds,
                   n |-> IF arg.isList THEN Len(arg.items) ELSE 1,
                   prev |-> lastCmd.kind]
    /\ NoteReplace
    /\ arg' = NoImages
    /\ UNCHANGED <<IS_PI, running, playerVars, cmds>>
    /\ UNCHANGED <<histVars, simVars, composeVars>>

\* MatrixDisplay.clear, entering `with self._lock`
ClearAcquire ==
    /\ IS_PI /\ prodPc = "run" /\ cmds < MaxCmds
    /\ lock = "free"
    /\ lock' = "producer"
    /\ cmds' = cmds + 1
    /\ prodPc' = "clear"
    /\ UNCHANGED <<IS_PI, frames, running, playerVars, arg, lastCmd,
                   superseded, skipped>>
    /\ UNCHANGED <<histVars, simVars, composeVars>>

\* MatrixDisplay.clear, the assignment and the release of the lock
ClearWrite ==
    /\ prodPc = "clear"
    /\ frames' = ClearAssign(frames)
    /\ lock' = "free"
    /\ prodPc' = "run"
    /\ lastCmd' = [kind |-> "clear", id |-> cmds, n |-> 0,
                   prev |-> lastCmd.kind]
    /\ NoteReplace
    /\ UNCHANGED <<IS_PI, running, playerVars, arg, cmds>>
    /\ UNCHANGED <<histVars, simVars, composeVars>>

\* MatrixDisplay.stop, self._running.clear()
StopSignal ==
    /\ IS_PI /\ prodPc = "run"
    /\ running' = FALSE
    /\ prodPc' = "join"
    /\ UNCHANGED <<IS_PI, frames, lock, playerVars, arg, cmds, lastCmd,
                   superseded, skipped>>
    /\ UNCHANGED <<histVars, simVars, composeVars>>

JoinReturnsAtOnce == TRUE

JoinReturns == ~is_alive

\* MatrixDisplay.stop, self._thread.join() returning
StopJoin ==
    /\ prodPc = "join"
    /\ JoinReturns
    /\ prodPc' = "done"
    /\ UNCHANGED <<IS_PI, frames, lock, running, playerVars, arg, cmds,
                   lastCmd, superseded, skipped>>
    /\ UNCHANGED <<histVars, simVars, composeVars>>

(***************************************************************************)
(* Producer side: SimulatorDisplay (start and stop are Display's no-ops)   *)
(***************************************************************************)
SimStart ==
    /\ ~IS_PI /\ prodPc = "init"
    /\ prodPc' = "run"
    /\ UNCHANGED <<IS_PI, frames, lock, running, playerVars, arg, cmds,
                   lastCmd, superseded, skipped>>
    /\ UNCHANGED <<histVars, simVars, composeVars>>

\* SimulatorDisplay.show: synchronous, writes one file or raises
SimShow ==
    /\ ~IS_PI /\ prodPc = "run" /\ cmds < MaxCmds
    /\ \E images \in ImagesFor(cmds + 1) :
         LET r == SimShowResult(images) IN
         /\ prodErr' = r.err
         /\ artifacts' = IF r.err = "none" THEN Append(artifacts, r.file)
                         ELSE artifacts
         /\ prodPc' = IF r.err = "none" THEN "run" ELSE "failed"
         /\ lastCmd' = [kind |-> "show", id |-> cmds + 1,
                        n |-> Len(SimImages(images)), prev |-> lastCmd.kind]
    /\ cmds' = cmds + 1
    /\ UNCHANGED <<IS_PI, frames, lock, running, playerVars, arg, superseded, skipped>>
    /\ UNCHANGED <<histVars, composeVars>>

\* SimulatorDisplay.clear: prints, nothing else
SimClear ==
    /\ ~IS_PI /\ prodPc = "run" /\ cmds < MaxCmds
    /\ cmds' = cmds + 1
    /\ lastCmd' = [kind |-> "clear", id |-> cmds + 1, n |-> 0,
                   prev |-> lastCmd.kind]
    /\ UNCHANGED <<IS_PI, frames, lock, running, playerVars, arg, prodPc,
                   superseded, skipped>>
    /\ UNCHANGED <<histVars, simVars, composeVars>>

\* Display.stop, also reached from the caller's finally after a raise
SimStop ==
    /\ ~IS_PI /\ prodPc \in {"run", "failed"}
    /\ prodPc' = "done"
    /\ UNCHANGED <<IS_PI, frames, lock, running, playerVars, arg, cmds,
                   lastCmd, superseded, skipped>>
    /\ UNCHANGED <<histVars, simVars, composeVars>>

(***************************************************************************)
(* The worker thread: MatrixDisplay._run_loop                              *)
(***************************************************************************)
producerSide == <<IS_PI, frames, running, prodPc, arg, cmds, lastCmd>>

\* matrix = RGBMatrix(options=self.options), before the try
Acquire ==
    /\ playerPc = "acquire"
    /\ playerPc' = "canvas"
    /\ lastOp' = "RGBMatrix"
    /\ UNCHANGED <<producerSide, lock, current_frames, frameIdx, panel,
                   raised, superseded, skipped>>
    /\ UNCHANGED <<histVars, simVars, composeVars>>

\* RGBMatrix() raising: the thread dies, nothing is caught
AcquireFail ==
    /\ playerPc = "acquire"
    /\ playerPc' = "done"
    /\ raised' = "init"
    /\ UNCHANGED <<producerSide, lock, current_frames, frameIdx, panel,
                   lastOp, superseded, skipped>>
    /\ UNCHANGED <<histVars, simVars, composeVars>>

\* canvas = matrix.CreateFrameCanvas(), before the try
Canvas ==
    /\ playerPc = "canvas"
    /\ playerPc' = "while"
    /\ lastOp' = "CreateFrameCanvas"
    /\ UNCHANGED <<producerSide, lock, current_frames, frameIdx, panel,
                   raised, superseded, skipped>>
    /\ UNCHANGED <<histVars, simVars, composeVars>>

\* CreateFrameCanvas() raising: the thread dies, nothing is caught
CanvasFail ==
    /\ playerPc = "canvas"
    /\ playerPc' = "done"
    /\ raised' = "init"
    /\ UNCHANGED <<producerSide, lock, current_frames, frameIdx, panel,
                   lastOp, superseded, skipped>>
    /\ UNCHANGED <<histVars, simVars, composeVars>>

WhileCond == running

\* while self._running.is_set()
While ==
    /\ playerPc = "while"
    /\ playerPc' = IF WhileCond THEN "lock" ELSE "finally"
    /\ UNCHANGED <<producerSide, lock, current_frames, frameIdx, panel,
                   lastOp, raised, superseded, skipped>>
    /\ UNCHANGED <<histVars, simVars, composeVars>>

\* with self._lock: entering
PlayerLock ==
    /\ playerPc = "lock"
    /\ lock = "free"
    /\ lock' = "player"
    /\ playerPc' = "copy"
    /\ UNCHANGED <<producerSide, current_frames, frameIdx, panel, lastOp,
                   raised, superseded, skipped>>
    /\ UNCHANGED <<histVars, simVars, composeVars>>

SnapshotSticky(cur, live) == IF cur # <<>> THEN cur ELSE live

\* current_frames = self._frames[:]
Snapshot(cur, live) == live

LockKeptForPass(holder) == holder

\* leaving `with self._lock` once the copy is made
LockAfterCopy(holder) == "free"

\* the copy, the release of the lock and the branch on current_frames
Copy ==
    /\ playerPc = "copy"
    /\ current_frames' = Snapshot(current_frames, frames)
    /\ lock' = LockAfterCopy(lock)
    /\ frameIdx' = 0
    /\ playerPc' = IF current_frames' = <<>> THEN "idle"
                   ELSE IF Len(current_frames') > 1 THEN "for" ELSE "static"
    /\ superseded' = FALSE
    /\ staleRenders' = 0
    /\ UNCHANGED <<producerSide, panel, lastOp, raised, renderedIds, skipped>>
    /\ UNCHANGED <<simVars, composeVars>>

\* for frame in current_frames: if not self._running.is_set(): break
ForCheck ==
    /\ playerPc = "for"
    /\ playerPc' = IF running THEN "anim" ELSE "while"
    /\ UNCHANGED <<producerSide, lock, current_frames, frameIdx, panel,
                   lastOp, raised, superseded, skipped>>
    /\ UNCHANGED <<histVars, simVars, composeVars>>

FrameFromLive(cur, live, k) ==
    IF k + 1 <= Len(live) THEN live[k + 1] ELSE cur[k + 1]

\* the image handed to canvas.SetImage in the animation branch
FrameToRender(cur, live, k) == cur[k + 1]

NextIdxStuck(k, n) == k

NextIdxNoWrap(k, n) == k + 1

\* the for loop moving on to the next element of current_frames
NextIdx(k, n) == IF k + 1 < n THEN k + 1 ELSE 0

\* history: a frame has been rendered
NoteRender(f) ==
    /\ renderedIds' = renderedIds \cup {f.id}
    /\ staleRenders' = IF superseded /\ staleRenders < MaxLen + 1
                       THEN staleRenders + 1 ELSE staleRenders

\* SetImage, SwapOnVSync, time.sleep(0.1) for one frame of an animation
Anim ==
    /\ playerPc = "anim"
    /\ LET f == FrameToRender(current_frames, frames, frameIdx) IN
         /\ panel' = f
         /\ NoteRender(f)
    /\ lastOp' = "SwapOnVSync"
    /\ frameIdx' = NextIdx(frameIdx, Len(current_frames))
    /\ playerPc' = IF frameIdx + 1 < Len(current_frames) THEN "for"
                   ELSE "while"
    /\ UNCHANGED <<producerSide, lock, current_frames, raised, superseded, skipped>>
    /\ UNCHANGED <<simVars, composeVars>>

\* SetImage(current_frames[0]), SwapOnVSync, time.sleep(0.5)
Static ==
    /\ playerPc = "static"
    /\ panel' = current_frames[1]
    /\ NoteRender(current_frames[1])
    /\ lastOp' = "SwapOnVSync"
    /\ playerPc' = "while"
    /\ UNCHANGED <<producerSide, lock, current_frames, frameIdx, raised,
                   superseded, skipped>>
    /\ UNCHANGED <<simVars, composeVars>>

\* canvas.Clear(), SwapOnVSync, time.sleep(0.1)
Idle ==
    /\ playerPc = "idle"
    /\ panel' = PanelBlank
    /\ lastOp' = "SwapOnVSync"
    /\ playerPc' = "while"
    /\ UNCHANGED <<producerSide, lock, current_frames, frameIdx, raised,
                   superseded, skipped>>
    /\ UNCHANGED <<histVars, simVars, composeVars>>

\* a hardware call raising inside the try: control goes to the finally
RenderFail ==
    /\ playerPc \in {"anim", "static", "idle"}
    /\ playerPc' = "finally"
    /\ raised' = "loop"
    /\ UNCHANGED <<producerSide, lock, current_frames, frameIdx, panel,
                   lastOp, superseded, skipped>>
    /\ UNCHANGED <<histVars, simVars, composeVars>>

ClearedPanelKeep(p) == p

\* what matrix.Clear() leaves on the panel
ClearedPanel(p) == PanelBlank

\* finally: matrix.Clear(), then the thread ends
Finally ==
    /\ playerPc = "finally"
    /\ panel' = ClearedPanel(panel)
    /\ lastOp' = "matrix.Clear"
    /\ playerPc' = "done"
    /\ UNCHANGED <<producerSide, lock, current_frames, frameIdx, raised,
                   superseded, skipped>>
    /\ UNCHANGED <<histVars, simVars, composeVars>>

PlayerStep ==
    \/ Acquire \/ Canvas \/ While \/ PlayerLock \/ Copy \/ ForCheck
    \/ Anim \/ Static \/ Idle \/ Finally

PlayerFault == AcquireFail \/ CanvasFail \/ RenderFail

ProducerStep ==
    \/ Start \/ ShowAcquire \/ ShowWrite \/ ClearAcquire \/ ClearWrite
    \/ StopSignal \/ StopJoin
    \/ SimStart \/ SimShow \/ SimClear \/ SimStop

Next == ProducerStep \/ PlayerStep \/ PlayerFault

Spec == Init /\ [][Next]_vars

\* the scheduler runs the worker thread, and a join on a dead thread returns
FairSpec == Spec /\ WF_vars(PlayerStep) /\ WF_vars(StopJoin)

TypeOK ==
    /\ IS_PI \in BOOLEAN
    /\ lock \in {"free", "producer", "player"}
    /\ running \in BOOLEAN
    /\ playerPc \in {"unstarted", "acquire", "canvas", "while", "lock",
                     "copy", "for", "anim", "static", "idle", "finally",
                     "done"}
    /\ frameIdx \in 0..MaxLen
    /\ raised \in {"none", "init", "loop"}
    /\ prodPc \in {"init", "run", "show", "clear", "join", "failed", "done"}
    /\ cmds \in 0..MaxCmds
    /\ renderedIds \subseteq 1..MaxCmds
    /\ skipped \subseteq 1..MaxCmds
    /\ staleRenders \in 0..(MaxLen + 1)

(***************************************************************************)
(* image_generator.py: the font, text measuring and the frame composer.    *)
(* A text is a sequence of one-character strings.                          *)
(***************************************************************************)
\* fonts/dot_matrix_font.py: glyph = columns, each a bit mask of 7 rows
DOT_MATRIX_FONT ==
    [c \in {"A", "I", ":", " "} |->
        CASE c = "A" -> <<126, 9, 9, 9, 126>>
          [] c = "I" -> <<65, 127, 65>>
          [] c = ":" -> <<20>>
          [] c = " " -> <<0, 0>>]

\* str.upper() on one character of the alphabet used here
Upper(c) == IF c = "a" THEN "A" ELSE IF c = "i" THEN "I" ELSE c

RECURSIVE AdvanceSum(_, _)
\* the loop of get_text_width
AdvanceSum(text, scale) ==
    IF text = <<>> THEN 0
    ELSE (IF Upper(Head(text)) \in DOMAIN DOT_MATRIX_FONT
          THEN (Len(DOT_MATRIX_FONT[Upper(Head(text))]) + 1) * scale
          ELSE 0) + AdvanceSum(Tail(text), scale)

WidthNoFloor(text, scale) == AdvanceSum(text, scale) - scale

\* ImageGenerator.get_text_width
get_text_width(text, scale) ==
    LET width == AdvanceSum(text, scale) IN
    IF width - scale > 0 THEN width - scale ELSE 0

max_width == MATRIX_WIDTH - 2 * margin

\* scroll_2 = width_2 > max_width, scroll_3 = width_3 > max_width
Scrolls(width) == width > max_width

Larger(a, b) == IF a > b THEN a ELSE b

LongestScrollLastWins(scroll_2, scroll_3, width_2, width_3) ==
    IF scroll_3 THEN width_3 ELSE IF scroll_2 THEN width_2 ELSE 0

\* longest_scroll as computed before the frame loop
LongestScroll(scroll_2, scroll_3, width_2, width_3) ==
    LET after_2 == IF scroll_2 THEN Larger(0, width_2) ELSE 0 IN
    IF scroll_3 THEN Larger(after_2, width_3) ELSE after_2

\* generate_display_image: a bare image, or a list with that many frames
generate_display_image(fn, oc, at, city) ==
    LET width_2 == get_text_width(city, 1)
        width_3 == get_text_width(at, 1)
        scroll_2 == Scrolls(width_2)
        scroll_3 == Scrolls(width_3)
    IN  IF ~(scroll_2 \/ scroll_3)
        THEN [isList |-> FALSE, n |-> 1]
        ELSE [isList |-> TRUE,
              n |-> LongestScroll(scroll_2, scroll_3, width_2, width_3)
                    + MATRIX_WIDTH]

Rep(c, n) == [i \in 1..n |-> c]

\* the texts the composer is called with
Tails == {<<>>, <<"a">>, <<"I">>, <<" ">>, <<"~">>, <<"i", " ">>}

Texts == {Rep("A", k) \o t : k \in 0..MaxReps, t \in Tails}

Row1Texts == {<<>>, Rep("A", MaxReps)}

ComposeInit ==
    /\ SinkInit({FALSE})
    /\ flight_number \in Row1Texts
    /\ origin_code \in Row1Texts
    /\ origin_city \in Texts
    /\ aircraft_type \in Texts
    /\ composePc = "ready"
    /\ result = NoResult
    /\ ToolIdle

\* one call of generate_display_image
Compose ==
    /\ composePc = "ready"
    /\ result' = generate_display_image(flight_number, origin_code,
                                        aircraft_type, origin_city)
    /\ composePc' = "returned"
    /\ UNCHANGED <<flight_number, origin_code, origin_city, aircraft_type>>
    /\ UNCHANGED <<sinkVars, toolVars>>

ComposeNext == Compose

ComposeSpec == ComposeInit /\ [][ComposeNext]_vars

(***************************************************************************)
(* One call of ImageGenerator.get_text_width, on a text and on its         *)
(* upper-cased form                                                        *)
(***************************************************************************)
MeasureAlphabet == {"A", "a", "I", ":", " ", "~"}

MeasureTexts ==
    UNION {[1..n -> MeasureAlphabet] : n \in 0..MaxText}

\* text.upper()
UpperText(t) == [i \in DOMAIN t |-> Upper(t[i])]

MeasureInit ==
    /\ SinkInit({FALSE})
    /\ flight_number = <<>> /\ origin_code = <<>>
    /\ origin_city = <<>> /\ aircraft_type = <<>>
    /\ composePc = "idle" /\ result = NoResult
    /\ toolPc = "ready"
    /\ in_text \in MeasureTexts
    /\ in_scale \in 1..MaxScale
    /\ in_x = 0 /\ in_y = 0 /\ in_clip = NoClip /\ in_font = <<>>
    /\ grid = {} /\ out_width = 0 /\ out_widthUpper = 0
    /\ in_diff = 0 /\ colour = <<0, 0, 0>> /\ step = 0 /\ first = {}

Measure ==
    /\ toolPc = "ready"
    /\ out_width' = get_text_width(in_text, in_scale)
    /\ out_widthUpper' = get_text_width(UpperText(in_text), in_scale)
    /\ toolPc' = "measured"
    /\ UNCHANGED <<in_text, in_scale, in_x, in_y, in_clip, in_font, grid,
                   in_diff, colour, step, first>>
    /\ UNCHANGED <<sinkVars, flight_number, origin_code, origin_city,
                   aircraft_type, composePc, result>>

MeasureNext == Measure

MeasureSpec == MeasureInit /\ [][MeasureNext]_vars

(***************************************************************************)
(* get_status_colour: the green-yellow-red gradient of a delay in seconds  *)
(***************************************************************************)
green == <<0, 255, 0>>

yellow == <<255, 255, 0>>

red == <<255, 0, 0>>

ClampNone(v, lo, hi) == v

\* max(lo, min(hi, v))
Clamp(v, lo, hi) == IF v < lo THEN lo ELSE IF v > hi THEN hi ELSE v

\* The code computes percent and the interpolation in IEEE doubles and
\* truncates with int().  At these integer inputs the exact value is a whole
\* number and the double lands just below it, so int() yields one less; at
\* every other integer input truncating the exact quotient gives the same
\* result as the doubles do.
DoubleFallsShort(diff_seconds) ==
    diff_seconds \in {-3360, -3120, -2880, 5760, 6240, 6720}

\* int(a * (1 - percent) + b * percent) with percent = num / den
Interpolate(a, b, num, den, short) ==
    ((a * (den - num) + b * num) \div den) - (IF short THEN 1 ELSE 0)

get_status_colour(diff_seconds) ==
    IF diff_seconds <= 0
    THEN LET num == Clamp(EARLY_SPAN + diff_seconds, 0, EARLY_SPAN) IN
         <<Interpolate(green[1], yellow[1], num, EARLY_SPAN,
                       DoubleFallsShort(diff_seconds)),
           255, 0>>
    ELSE LET num == Clamp(diff_seconds, 0, LATE_SPAN) IN
         <<255,
           Interpolate(yellow[2], red[2], num, LATE_SPAN,
                       DoubleFallsShort(diff_seconds)),
           0>>

GradientInit ==
    /\ SinkInit({FALSE})
    /\ flight_number = <<>> /\ origin_code = <<>>
    /\ origin_city = <<>> /\ aircraft_type = <<>>
    /\ composePc = "idle" /\ result = NoResult
    /\ toolPc = "ready"
    /\ in_diff \in -MaxDelta..MaxDelta
    /\ in_text = <<>> /\ in_scale = 1
    /\ in_x = 0 /\ in_y = 0 /\ in_clip = NoClip /\ in_font = <<>>
    /\ grid = {} /\ out_width = 0 /\ out_widthUpper = 0
    /\ colour = <<0, 0, 0>> /\ step = 0 /\ first = {}

Gradient ==
    /\ toolPc = "ready"
    /\ colour' = get_status_colour(in_diff)
    /\ toolPc' = "coloured"
    /\ UNCHANGED <<in_text, in_scale, in_x, in_y, in_clip, in_font, grid,
                   out_width, out_widthUpper, in_diff, step, first>>
    /\ UNCHANGED <<sinkVars, flight_number, origin_code, origin_city,
                   aircraft_type, composePc, result>>

GradientNext == Gradient

GradientSpec == GradientInit /\ [][GradientNext]_vars

(***************************************************************************)
(* ImageGenerator.draw_text on a grid of W columns and H rows.  The grid   *)
(* is the set of its lit cells <<x, y>>.                                   *)
(***************************************************************************)
\* (col_data >> row_index) & 1
Bit(col_data, row_index) == (col_data \div (2 ^ row_index)) % 2 = 1

\* the two "continue" tests on draw_x
InClip(clip, draw_x) ==
    /\ ~(clip.hasStart /\ draw_x < clip.start)
    /\ ~(clip.hasEnd /\ draw_x >= clip.end)

\* 0 <= draw_x < self.width and 0 <= draw_y < self.height
InGrid(W, H, draw_x, draw_y) ==
    /\ 0 <= draw_x /\ draw_x < W
    /\ 0 <= draw_y /\ draw_y < H

PlotCellsLiteral(char, scale, draw_x, draw_y, W, H) ==
    IF InGrid(W, H, draw_x, draw_y) THEN {<<draw_x, draw_y>>} ELSE {}

\* the cells written for one (draw_x, draw_y) that passed the clip tests
PlotCells(char, scale, draw_x, draw_y, W, H) ==
    IF ~InGrid(W, H, draw_x, draw_y) THEN {}
    ELSE IF char = ":" /\ scale = 1
         THEN IF draw_x + 1 < W /\ draw_y + 1 < H
              THEN {<<draw_x, draw_y>>, <<draw_x + 1, draw_y>>,
                    <<draw_x, draw_y + 1>>, <<draw_x + 1, draw_y + 1>>}
              ELSE {}
         ELSE {<<draw_x, draw_y>>}

\* the loops over col_index, row_index, sx and sy for one character
GlyphCells(char, char_data, x, y_start, scale, clip, W, H) ==
    UNION {PlotCells(char, scale,
                     x + ((q[1] - 1) * scale) + q[3],
                     y_start + (q[2] * scale) + q[4], W, H) :
           q \in {p \in (1..Len(char_data)) \X (0..(char_height - 1))
                        \X (0..(scale - 1)) \X (0..(scale - 1)) :
                    /\ Bit(char_data[p[1]], p[2])
                    /\ InClip(clip, x + ((p[1] - 1) * scale) + p[3])}}

RECURSIVE DrawFrom(_, _, _, _, _, _, _, _)
\* the loop over text.upper(), with the cursor x
DrawFrom(text, x, y_start, font, scale, clip, W, H) ==
    IF text = <<>> THEN {}
    ELSE LET char == Upper(Head(text)) IN
         IF char \in DOMAIN font
         THEN GlyphCells(char, font[char], x, y_start, scale, clip, W, H)
              \cup DrawFrom(Tail(text), x + (Len(font[char]) + 1) * scale,
                            y_start, font, scale, clip, W, H)
         ELSE DrawFrom(Tail(text), x, y_start, font, scale, clip, W, H)

\* ImageGenerator.draw_text: the grid after the call
draw_text(g, text, x_start, y_start, font, scale, clip, W, H) ==
    g \cup DrawFrom(text, x_start, y_start, font, scale, clip, W, H)

(***************************************************************************)
(* One call of draw_text on a fresh ImageGenerator(DrawWidth, DrawHeight)  *)
(***************************************************************************)
DrawTexts ==
    {<<>>, <<":">>, <<"A">>, <<"~">>, <<"a", ":">>, <<"~", ":">>,
     <<":", ":">>}

\* column data a font may give the colon
ColonGlyphs == {<<20>>, <<1>>, <<0, 54>>, <<0>>}

DrawFonts ==
    {[DOT_MATRIX_FONT EXCEPT ![":"] = cg] : cg \in ColonGlyphs}

ClipChoices ==
    {NoClip}
    \cup {[hasStart |-> TRUE, start |-> a, hasEnd |-> TRUE, end |-> b] :
            a \in 0..2, b \in {DrawWidth - 2, DrawWidth - 1}}
    \cup {[hasStart |-> TRUE, start |-> a, hasEnd |-> FALSE, end |-> 0] :
            a \in 1..2}
    \cup {[hasStart |-> FALSE, start |-> 0, hasEnd |-> TRUE, end |-> b] :
            b \in {DrawWidth - 2, DrawWidth - 1}}

DrawInit ==
    /\ SinkInit({FALSE})
    /\ flight_number = <<>> /\ origin_code = <<>>
    /\ origin_city = <<>> /\ aircraft_type = <<>>
    /\ composePc = "idle" /\ result = NoResult
    /\ toolPc = "ready"
    /\ in_text \in DrawTexts
    /\ in_scale \in 1..MaxScale
    /\ in_x \in -2..DrawWidth
    /\ in_y \in -2..DrawHeight
    /\ in_clip \in ClipChoices
    /\ in_font \in DrawFonts
    /\ grid = {} /\ out_width = 0 /\ out_widthUpper = 0
    /\ in_diff = 0 /\ colour = <<0, 0, 0>> /\ step = 0 /\ first = {}

Draw ==
    /\ toolPc = "ready"
    /\ grid' = draw_text(grid, in_text, in_x, in_y, in_font, in_scale,
                         in_clip, DrawWidth, DrawHeight)
    /\ toolPc' = "drawn"
    /\ UNCHANGED <<in_text, in_scale, in_x, in_y, in_clip, in_font,
                   out_width, out_widthUpper, in_diff, colour, step, first>>
    /\ UNCHANGED <<sinkVars, flight_number, origin_code, origin_city,
                   aircraft_type, composePc, result>>

DrawNext == Draw

DrawSpec == DrawInit /\ [][DrawNext]_vars

(***************************************************************************)
(* The frames generate_display_image composes, one per pass of its loop    *)
(***************************************************************************)
\* line_2_text + "   "
ScrollText(text) == text \o <<" ", " ", " ">>

\* draw_text with the default font, scale 1 and no clip arguments, as every
\* call in generate_display_image is made
DrawLine(g, text, x_start, y_start) ==
    draw_text(g, text, x_start, y_start, DOT_MATRIX_FONT, 1, NoClip,
              MATRIX_WIDTH, MATRIX_HEIGHT)

\* line 1: origin code at the left margin, flight number right-aligned
DrawLine1(g, fn, oc) ==
    DrawLine(DrawLine(g, oc, margin, line_1_y),
             fn, MATRIX_WIDTH - get_text_width(fn, 1) - margin, line_1_y)

\* line 2 or 3 of frame i: two copies copy_gap apart when it scrolls
DrawScrollLine(g, text, y_start, i) ==
    LET w == get_text_width(text, 1) IN
    IF Scrolls(w)
    THEN DrawLine(DrawLine(g, ScrollText(text), margin - i, y_start),
                  ScrollText(text), margin - i + w + copy_gap, y_start)
    ELSE DrawLine(g, text, margin, y_start)

\* the grid of the frame composed at offset step i
ScrollFrame(fn, oc, at, city, i) ==
    DrawScrollLine(DrawScrollLine(DrawLine1({}, fn, oc), city, line_2_y, i),
                   at, line_3_y, i)

\* the grid of the single image composed when nothing scrolls
StaticFrame(fn, oc, at, city) ==
    DrawLine(DrawLine(DrawLine1({}, fn, oc), city, margin, line_2_y),
             at, margin, line_3_y)

FrameCities == {Rep("A", 2), Rep("A", MaxReps), Rep("A", MaxReps) \o <<"I">>}

FrameAircraft == {<<"A", "I">>, Rep("A", MaxReps)}

FrameInit ==
    /\ SinkInit({FALSE})
    /\ flight_number = <<"I">> /\ origin_code = <<"A">>
    /\ origin_city \in FrameCities
    /\ aircraft_type \in FrameAircraft
    /\ composePc = "idle" /\ result = NoResult
    /\ toolPc = "composing"
    /\ in_text = <<>> /\ in_scale = 1
    /\ in_x = 0 /\ in_y = 0 /\ in_clip = NoClip /\ in_font = <<>>
    /\ grid = {} /\ out_width = 0 /\ out_widthUpper = 0
    /\ in_diff = 0 /\ colour = <<0, 0, 0>> /\ step = 0 /\ first = {}

Composed ==
    generate_display_image(flight_number, origin_code, aircraft_type,
                           origin_city)

\* the branch taken when no line scrolls
ComposeStatic ==
    /\ toolPc = "composing"
    /\ ~Composed.isList
    /\ grid' = StaticFrame(flight_number, origin_code, aircraft_type,
                           origin_city)
    /\ first' = grid'
    /\ step' = 1
    /\ result' = Composed
    /\ toolPc' = "returned"
    /\ UNCHANGED <<in_text, in_scale, in_x, in_y, in_clip, in_font,
                   out_width, out_widthUpper, in_diff, colour>>
    /\ UNCHANGED <<sinkVars, flight_number, origin_code, origin_city,
                   aircraft_type, composePc>>

\* one pass of "for i in range(longest_scroll + MATRIX_WIDTH)"
ComposeFrame ==
    /\ toolPc = "composing"
    /\ Composed.isList
    /\ step < Composed.n
    /\ grid' = ScrollFrame(flight_number, origin_code, aircraft_type,
                           origin_city, step)
    /\ first' = IF step = 0 THEN grid' ELSE first
    /\ step' = step + 1
    /\ UNCHANGED <<toolPc, result>>
    /\ UNCHANGED <<in_text, in_scale, in_x, in_y, in_clip, in_font,
                   out_width, out_widthUpper, in_diff, colour>>
    /\ UNCHANGED <<sinkVars, flight_number, origin_code, origin_city,
                   aircraft_type, composePc>>

\* "return frames" once the range is exhausted
ComposeReturn ==
    /\ toolPc = "composing"
    /\ Composed.isList
    /\ step = Composed.n
    /\ result' = Composed
    /\ toolPc' = "returned"
    /\ UNCHANGED <<grid, first, step>>
    /\ UNCHANGED <<in_text, in_scale, in_x, in_y, in_clip, in_font,
                   out_width, out_widthUpper, in_diff, colour>>
    /\ UNCHANGED <<sinkVars, flight_number, origin_code, origin_city,
                   aircraft_type, composePc>>

FrameNext == ComposeStatic \/ ComposeFrame \/ ComposeReturn

FrameSpec == FrameInit /\ [][FrameNext]_vars

(***************************************************************************)
(* Properties of the display sinks                                         *)
(***************************************************************************)
MaxOf(S) == IF S = {} THEN 0 ELSE CHOOSE m \in S : \A x \in S : x <= m

Range(f) == {f[i] : i \in DOMAIN f}

\* the worker has just put a frame on the panel
Rendered == playerPc \in {"anim", "static"} /\ playerPc' \in {"for", "while"}

\* the snapshot the worker plays is one whole published sequence
SnapshotWhole ==
    \E id \in 0..cmds : \E n \in 0..MaxLen : current_frames = MkList(id, n)

\* no call is in progress, the sink is started and the worker has not raised
Quiet == IS_PI /\ prodPc = "run" /\ raised = "none"

\* the panel shows the content of the last completed call
ShowsLatest ==
    IF Expected(lastCmd) = <<>> THEN panel = PanelBlank
    ELSE IsFrame(panel) /\ panel.id = lastCmd.id

\* C1: a show() during playback replaces the sequence as a whole: the worker
\* plays one whole published sequence at a time, every rendered frame belongs
\* to a published sequence, the first frame rendered of a newer sequence is
\* its frame 0, and no frame of an older sequence is rendered after a frame
\* of a newer one.
C1_AtomicReplace ==
    /\ []SnapshotWhole
    /\ [][Rendered =>
            /\ IsFrame(panel') /\ panel'.id \in 1..cmds
            /\ panel' \in Range(current_frames)
            /\ panel'.id >= MaxOf(renderedIds)
            /\ (panel'.id \notin renderedIds => panel'.idx = 0)]_vars

C1_Witness ==
    /\ renderedIds = {1, 2} /\ IsFrame(panel) /\ panel.id = 2
    /\ Len(current_frames) > 1 /\ staleRenders = 0

\* C2 (as claimed): once a call has replaced the content, the worker renders
\* at most one more frame of the multi-frame sequence it is animating.
C2_AtMostOneStaleFrame ==
    Len(current_frames) > 1 => staleRenders <= 1

\* C2 (amended): once a call has replaced the content, the worker renders at
\* most len(S) more frames of the sequence S it is playing (the rest of its
\* pass over the snapshot) before it takes the next snapshot.
C2_AtMostOnePassStale ==
    /\ staleRenders <= Len(current_frames)
    /\ (staleRenders > 0 => superseded /\ frames # current_frames)

C2_Witness ==
    /\ Len(current_frames) = MaxLen /\ staleRenders = MaxLen
    /\ playerPc = "while" /\ frames # current_frames

\* C3: stop() returns only once the worker thread has ended, nothing changes
\* the worker or the panel afterwards, and a stop() that has signalled the
\* worker always returns.
C3_StopSynchronous ==
    /\ [](IS_PI /\ prodPc = "done" => playerPc = "done")
    /\ [][prodPc = "done" => UNCHANGED <<playerPc, panel, lastOp>>]_vars
    /\ (prodPc = "join" ~> prodPc = "done")

C3_Witness ==
    /\ IS_PI /\ prodPc = "done" /\ playerPc = "done"
    /\ renderedIds # {} /\ raised = "none" /\ lastOp = "matrix.Clear"

C5_InOrderWrap ==
    /\ [](current_frames # <<>> => frameIdx < Len(current_frames))
    /\ [](playerPc = "anim" => Len(current_frames) > 1)
    /\ [](playerPc = "static" => Len(current_frames) = 1 /\ frameIdx = 0)
    /\ [][Rendered =>
            /\ panel' = current_frames[frameIdx + 1]
            /\ panel'.idx = frameIdx
            /\ (IsFrame(panel) /\ panel.id = panel'.id =>
                  panel'.idx = (panel.idx + 1) % Len(current_frames))
            /\ frameIdx' = (frameIdx + 1) % Len(current_frames)]_vars
    /\ \A i \in 0..MaxLen :
          <>[](Quiet /\ lastCmd.kind = "show" /\ lastCmd.n > i)
             => []<>(panel = Frame(lastCmd.id, i))

C5_Witness ==
    /\ Len(current_frames) = MaxLen /\ playerPc = "anim" /\ frameIdx = 0
    /\ panel = current_frames[MaxLen]

\* C6: every snapshot takes the content of the last completed call, a
\* sequence replaced before any snapshot saw it is never rendered, and when
\* the producer stays quiet the panel ends up showing the last content only.
C6_LatestWins ==
    /\ [][playerPc = "copy" /\ playerPc' # "copy" =>
            current_frames' = Expected(lastCmd)]_vars
    /\ [][playerPc # "copy" => current_frames' = current_frames]_vars
    /\ [](renderedIds \cap skipped = {})
    /\ (<>[]Quiet => <>[]ShowsLatest)

C6_Witness ==
    /\ skipped # {} /\ renderedIds # {} /\ Quiet /\ ShowsLatest
    /\ IsFrame(panel)

\* C7: clear() publishes the empty content whatever was published before,
\* a second clear() changes nothing and raises nothing, and when no call
\* follows the clear() the panel ends up blank for good.
C7_ClearIdempotent ==
    /\ [][prodPc = "clear" /\ prodPc' = "run" =>
            /\ frames' = <<>> /\ prodErr' = "none"
            /\ (lastCmd.kind = "clear" => frames' = frames)]_vars
    /\ [](lastCmd.kind = "clear" => frames = <<>> /\ prodErr = "none")
    /\ (<>[](Quiet /\ lastCmd.kind = "clear")
           => <>[](panel = PanelBlank /\ current_frames = <<>>))

C7_Witness ==
    /\ IS_PI /\ lastCmd.kind = "clear" /\ lastCmd.prev = "clear"
    /\ frames = <<>> /\ panel = PanelBlank /\ playerPc = "while"

C7_WitnessAfterShow ==
    /\ IS_PI /\ lastCmd.kind = "clear" /\ lastCmd.prev = "show"
    /\ renderedIds # {} /\ panel = PanelBlank /\ current_frames = <<>>

\* C8: on either sink a show() of an empty list acts as clear(): it raises
\* nothing, leaves the empty content published and writes no file.
C8_EmptyShowIsClear ==
    lastCmd.kind = "show" /\ lastCmd.n = 0 =>
        /\ prodErr = "none"
        /\ frames = <<>>
        /\ Len(artifacts) < cmds

\* C9: once the acquisition of the hardware has failed the producer makes no
\* further show() or clear() call on the sink.
C9_AcquireFailureIsFatal ==
    [][raised = "init" => cmds' = cmds /\ frames' = frames]_vars

(***************************************************************************)
(* Properties of the frame composer                                        *)
(***************************************************************************)
\* C10: when rows 2 and 3 both measure at most MATRIX_WIDTH - 2 * margin the
\* composer returns one static frame; otherwise it returns a list of exactly
\* (largest width among the overflowing rows) + MATRIX_WIDTH frames; the
\* texts of row 1 play no part.
C10_FrameCount ==
    composePc = "returned" =>
        LET w2 == get_text_width(origin_city, 1)
            w3 == get_text_width(aircraft_type, 1)
            limit == MATRIX_WIDTH - 2 * margin
            over == {w \in {w2, w3} : w > limit}
        IN  IF w2 <= limit /\ w3 <= limit
            THEN result = [isList |-> FALSE, n |-> 1]
            ELSE result = [isList |-> TRUE, n |-> MaxOf(over) + MATRIX_WIDTH]

C10_Witness ==
    /\ composePc = "returned" /\ result.isList
    /\ get_text_width(origin_city, 1) > get_text_width(aircraft_type, 1)
    /\ get_text_width(aircraft_type, 1) > MATRIX_WIDTH - 2 * margin
    /\ get_text_width(flight_number, 1) > MATRIX_WIDTH - 2 * margin

C10_WitnessAtLimit ==
    /\ composePc = "returned" /\ ~result.isList /\ result.n = 1
    /\ get_text_width(origin_city, 1) = MATRIX_WIDTH - 2 * margin
    /\ get_text_width(flight_number, 1) > MATRIX_WIDTH - 2 * margin

(***************************************************************************)
(* Properties of text measuring                                            *)
(***************************************************************************)
\* the number of places of t that hold the character c once upper-cased
Occurrences(t, c) == Cardinality({i \in DOMAIN t : Upper(t[i]) = c})

RECURSIVE SumOver(_, _, _)
SumOver(S, t, s) ==
    IF S = {} THEN 0
    ELSE LET c == CHOOSE x \in S : TRUE IN
         Occurrences(t, c) * (Len(DOT_MATRIX_FONT[c]) + 1) * s
         + SumOver(S \ {c}, t, s)

\* C13: the measured width is the sum, over the upper-cased characters of
\* the text that the font has, of (glyph width + 1) * scale, less one scale,
\* and never below 0: the empty text and a text of unsupported characters
\* measure 0, and a text measures the same as its upper-cased form.
C13_Measure ==
    toolPc = "measured" =>
        LET total == SumOver(DOMAIN DOT_MATRIX_FONT, in_text, in_scale) IN
        /\ out_width = (IF total - in_scale > 0 THEN total - in_scale ELSE 0)
        /\ out_width >= 0
        /\ (in_text = <<>> => out_width = 0)
        /\ ((\A i \in DOMAIN in_text :
                Upper(in_text[i]) \notin DOMAIN DOT_MATRIX_FONT)
              => out_width = 0)
        /\ out_width = out_widthUpper

C13_Witness ==
    /\ toolPc = "measured" /\ Len(in_text) = MaxText /\ in_scale = MaxScale
    /\ in_text[1] = "a" /\ in_text[2] = "~" /\ in_text[3] = ":"
    /\ out_width = (6 + 2) * MaxScale - MaxScale

C14_WitnessLate ==
    /\ toolPc = "coloured"
    /\ in_diff = MaxDelta
    /\ colour = red

C14_WitnessBetween ==
    /\ toolPc = "coloured"
    /\ in_diff = 3600
    /\ colour = <<255, 127, 0>>

(***************************************************************************)
(* Properties of rasterization                                             *)
(***************************************************************************)
\* C15: draw_text lights a cell only if the cell is inside the grid and,
\* when clip bounds are supplied, its column is in [clip_x_start,
\* clip_x_end); this for every character, the colon at scale 1 included.
C15_WritesInsideRegion ==
    toolPc = "drawn" =>
        \A cell \in grid :
            /\ InGrid(DrawWidth, DrawHeight, cell[1], cell[2])
            /\ (in_clip.hasStart => cell[1] >= in_clip.start)
            /\ (in_clip.hasEnd => cell[1] < in_clip.end)

\* the set bits of the colon's column data, as <<column, row>> from 0
ColonBits ==
    {b \in (0..(Len(in_font[":"]) - 1)) \X (0..(char_height - 1)) :
        Bit(in_font[":"][b[1] + 1], b[2])}

\* the 2x2 block whose top-left cell is <<x, y>>
Block(x, y) == {<<x, y>>, <<x + 1, y>>, <<x, y + 1>>, <<x + 1, y + 1>>}

\* C16, as the spec states it: a colon drawn at scale 1 lights exactly the
\* cells of one 2x2 block at (origin_x, origin_y) that are in bounds,
\* whatever bits its glyph has.
C16_OneBlockAtOrigin ==
    (toolPc = "drawn" /\ in_text = <<":">> /\ in_scale = 1
        /\ in_clip = NoClip)
    => grid = {cell \in Block(in_x, in_y) :
                 InGrid(DrawWidth, DrawHeight, cell[1], cell[2])}

\* C16, as the code has it: a colon drawn at scale 1 lights one 2x2 block
\* per set bit of its glyph, with top-left cell at that bit's own cell,
\* when the top-left cell passes the clip and the whole block is inside the
\* grid; at any other scale it lights its literal bitmap.
C16_BlockPerBit ==
    (toolPc = "drawn" /\ in_text = <<":">>) =>
        IF in_scale = 1
        THEN grid = UNION {Block(in_x + b[1], in_y + b[2]) :
                           b \in {c \in ColonBits :
                                   /\ InClip(in_clip, in_x + c[1])
                                   /\ 0 <= in_x + c[1]
                                   /\ in_x + c[1] + 1 < DrawWidth
                                   /\ 0 <= in_y + c[2]
                                   /\ in_y + c[2] + 1 < DrawHeight}}
        ELSE grid = {cell \in (0..(DrawWidth - 1)) \X (0..(DrawHeight - 1)) :
                       /\ InClip(in_clip, cell[1])
                       /\ \E b \in ColonBits :
                            /\ cell[1] - in_x >= b[1] * in_scale
                            /\ cell[1] - in_x < (b[1] + 1) * in_scale
                            /\ cell[2] - in_y >= b[2] * in_scale
                            /\ cell[2] - in_y < (b[2] + 1) * in_scale}

C16_Witness ==
    /\ toolPc = "drawn" /\ in_text = <<":">> /\ in_scale = 1
    /\ in_clip = NoClip /\ in_x = 1 /\ in_y = 0
    /\ in_font[":"] = <<20>>
    /\ grid = Block(1, 2) \cup Block(1, 4)

C16_WitnessLiteral ==
    /\ toolPc = "drawn" /\ in_text = <<":">> /\ in_scale = 2
    /\ in_clip = NoClip /\ in_x = 1 /\ in_y = 0
    /\ in_font[":"] = <<1>>
    /\ grid = Block(1, 0)

(***************************************************************************)
(* Properties of the scrolling frames                                      *)
(***************************************************************************)
\* the rows a line of text drawn at y_start occupies
Lane(y_start) == y_start..(y_start + char_height - 1)

\* the lanes of the lines that scroll for the current texts
ScrollLanes ==
    (IF Scrolls(get_text_width(origin_city, 1)) THEN Lane(line_2_y) ELSE {})
    \cup
    (IF Scrolls(get_text_width(aircraft_type, 1)) THEN Lane(line_3_y) ELSE {})

\* C11: in every frame of a scrolling sequence no lit pixel in the lane of
\* a scrolling row lies in a column below margin or at or beyond
\* panel width - margin.
C11_ScrollClipped ==
    (toolPc \in {"composing", "returned"} /\ step > 0) =>
        \A cell \in grid :
            cell[2] \in ScrollLanes =>
                (margin <= cell[1] /\ cell[1] < MATRIX_WIDTH - margin)

\* C12: the frame that would be composed at offset step N, N the number of
\* frames returned, is identical to frame 0.
C12_SeamlessLoop ==
    (toolPc = "returned" /\ result.isList) =>
        ScrollFrame(flight_number, origin_code, aircraft_type, origin_city,
                    result.n) = first

(***************************************************************************)
(* Properties of the frames lock                                           *)
(***************************************************************************)
\* C17: the worker holds the frames lock only while it copies the published
\* list, never while it renders a frame or sleeps, so show() and clear()
\* can always enter and finish while a frame is held; the producer holds
\* the lock only inside show() and clear(), never while stop() joins; some
\* thread can always step until the program has ended, a lock held by the
\* worker is always released, and a join always returns.
C17_ProducerNeverBlocked ==
    /\ [](lock = "player" => playerPc = "copy")
    /\ [][(Anim \/ Static \/ Idle)
            => (lock # "player" /\ lock' # "player")]_vars
    /\ []((IS_PI /\ prodPc = "run" /\ cmds < MaxCmds /\ playerPc # "copy")
            => (ENABLED ShowAcquire /\ ENABLED ClearAcquire))
    /\ [](prodPc = "show" => ENABLED ShowWrite)
    /\ [](prodPc = "clear" => ENABLED ClearWrite)
    /\ [](lock = "producer" => prodPc \in {"show", "clear"})
    /\ []((IS_PI /\ prodPc \in {"run", "show", "clear", "join"})
            => (ENABLED ProducerStep \/ ENABLED PlayerStep))
    /\ (lock = "player" ~> lock = "free")
    /\ ((prodPc = "join" /\ lock = "player") ~> prodPc = "done")

\* show() holds the lock in the middle of an animation pass
C17_Witness ==
    /\ prodPc = "show" /\ lock = "producer"
    /\ playerPc = "anim" /\ frameIdx > 0 /\ IsFrame(panel)

\* stop() is joining while the worker holds the lock for its copy
C17_WitnessJoin ==
    /\ prodPc = "join" /\ lock = "player" /\ playerPc = "copy"

====
